---- MODULE Spec2Model ----
(***************************************************************************)
(* One run of the dashboard script Dashboard_24August.py: the RUEN section *)
(* (load, national filter and charts, provincial filter and charts)        *)
(* followed by the RUPTL section (load, independent and cumulative         *)
(* charts).  Year labels are Python strings, modelled as sequences of      *)
(* decimal digits; a table is the list of its year columns, the list of    *)
(* its row names (first column) and one list of cell values per row.       *)
(***************************************************************************)
EXTENDS Integers, Sequences, FiniteSets, TLC

VARIABLES pc, fs, page, figs,
          df, years, start_year_indonesia, end_year_indonesia, viz_type,
          years_range, selected_provinces,
          df_ruptl, start_year_ind, end_year_ind, viz_type_ind,
          start_year_cum, end_year_cum, viz_type_cum

ruen_frame == <<df, years, start_year_indonesia, end_year_indonesia, viz_type,
                years_range, selected_provinces>>
ruptl_frame == <<df_ruptl, start_year_ind, end_year_ind, viz_type_ind,
                 start_year_cum, end_year_cum, viz_type_cum>>
vars == <<pc, fs, page, figs, ruen_frame, ruptl_frame>>

(* ------------------------------ bounds --------------------------------- *)

\* Number of rows a dataset file may hold (taken from the row pools below).
MaxRows == 2

(* --------------------------- Python strings ---------------------------- *)

\* str < str: lexicographic comparison, a proper prefix is smaller.
RECURSIVE StrLess(_, _)
StrLess(a, b) ==
    IF a = <<>> THEN b # <<>>
    ELSE IF b = <<>> THEN FALSE
    ELSE IF Head(a) = Head(b) THEN StrLess(Tail(a), Tail(b))
    ELSE Head(a) < Head(b)

\* int(label): value of a string of decimal digits.
RECURSIVE IntOf(_)
IntOf(s) ==
    IF s = <<>> THEN 0
    ELSE 10 * IntOf(SubSeq(s, 1, Len(s) - 1)) + s[Len(s)]

\* str(n) for a non-negative integer: its decimal digits, no leading zero.
RECURSIVE StrOf(_)
StrOf(n) ==
    IF n < 10 THEN <<n>> ELSE Append(StrOf(n \div 10), n % 10)

\* x in list
Contains(list, x) == \E i \in 1..Len(list) : list[i] = x

\* list.index(x) / Index.get_loc(x), 1-based; the labels of a table are unique.
IndexOf(list, x) == CHOOSE i \in 1..Len(list) : list[i] = x /\ \A j \in 1..(i-1) : list[j] # x

(* ------------------------------ pandas --------------------------------- *)

\* DataFrame.sum() of the year columns: one total per column over all rows.
RECURSIVE ColumnSum(_, _)
ColumnSum(vals, j) ==
    IF vals = <<>> THEN 0 ELSE vals[1][j] + ColumnSum(Tail(vals), j)

yearly_total(t) == [j \in 1..Len(t.cols) |-> ColumnSum(t.vals, j)]

\* Series.cumsum(): running sum, left to right.
RECURSIVE cumsum(_)
cumsum(s) ==
    IF s = <<>> THEN <<>>
    ELSE LET p == cumsum(SubSeq(s, 1, Len(s) - 1))
         IN  Append(p, (IF p = <<>> THEN 0 ELSE p[Len(p)]) + s[Len(s)])

\* Mutants of loc_slice: a half-open slice, and a slice that reorders its ends.
loc_slice_open(index, values, s, e) ==
    LET m == IndexOf(index, s)
        n == IndexOf(index, e) - 1
    IN  IF m > n THEN <<>> ELSE SubSeq(values, m, n)

loc_slice_sorted(index, values, s, e) ==
    LET m == IndexOf(index, s)
        n == IndexOf(index, e)
    IN  IF m > n THEN SubSeq(values, n, m) ELSE SubSeq(values, m, n)

\* values.loc[s:e] over an index of unique labels that holds both s and e:
\* the entries from the position of s through the position of e, both
\* included; nothing when s is positioned after e.
loc_slice(index, values, s, e) ==
    LET m == IndexOf(index, s)
        n == IndexOf(index, e)
    IN  IF m > n THEN <<>> ELSE SubSeq(values, m, n)

(* ------------------------------ datasets ------------------------------- *)

Label(a, b, c, d) == <<a, b, c, d>>

\* Year columns of the RUEN file: 4-digit labels, labels of mixed length,
\* and a file without the default end year.  File order is chronological.
RuenColsCanonical == <<Label(2,0,1,5), Label(2,0,1,6), Label(2,0,1,7), Label(2,0,2,5)>>
RuenColsMixed     == <<<<9,9,9>>, Label(1,0,0,0), Label(2,0,1,5), Label(2,0,2,5)>>
RuenColsShort     == <<Label(2,0,1,5), Label(2,0,1,6), Label(2,0,1,7)>>

RuptlCols == <<Label(2,0,2,1), Label(2,0,2,2), Label(2,0,2,3)>>

RowNames == <<"A", "B", "C", "D">>
RuenRowPool  == << <<10, 20, 30, 40>>, <<5, 5, 5, 5>>, <<0, 7, 1, 3>>, <<2, 0, 0, 9>> >>
RuptlRowPool == << <<2, 3, 4>>, <<1, 1, 1>>, <<0, 6, 2>>, <<3, 0, 5>> >>

Table(cols, pool, n) ==
    [cols  |-> cols,
     names |-> SubSeq(RowNames, 1, n),
     vals  |-> [r \in 1..n |-> SubSeq(pool[r], 1, Len(cols))]]

EmptyTable == [cols |-> <<>>, names |-> <<>>, vals |-> <<>>]

RuenTables ==
    {Table(c, RuenRowPool, n) :
        c \in {RuenColsCanonical, RuenColsMixed, RuenColsShort}, n \in 1..MaxRows}
RuptlTables == {Table(RuptlCols, RuptlRowPool, n) : n \in 1..MaxRows}

File(t)  == [exists |-> TRUE, table |-> t]
NoFile   == [exists |-> FALSE, table |-> EmptyTable]

\* Values offered by the provincial slider that are probed besides the years
\* of the columns themselves.
ProbeYears == {1500, 2020}

(* ------------------------------- state --------------------------------- *)

NoLabel == <<>>

Init ==
    /\ pc = "start"
    /\ fs \in [ruen  : {NoFile} \cup {File(t) : t \in RuenTables},
               ruptl : {NoFile} \cup {File(t) : t \in RuptlTables}]
    /\ page = <<>>
    /\ figs = <<>>
    /\ df = EmptyTable
    /\ years = <<>>
    /\ start_year_indonesia = NoLabel
    /\ end_year_indonesia = NoLabel
    /\ viz_type = ""
    /\ years_range = <<0, 0>>
    /\ selected_provinces = {}
    /\ df_ruptl = EmptyTable
    /\ start_year_ind = NoLabel
    /\ end_year_ind = NoLabel
    /\ viz_type_ind = ""
    /\ start_year_cum = NoLabel
    /\ end_year_cum = NoLabel
    /\ viz_type_cum = ""

\* main() of the RUEN section up to load_data(RUEN_PATH): setup_ui, then the
\* table and its year labels, or st.error and st.stop when the file is absent.
load_data_ruen ==
    /\ pc = "start"
    /\ IF fs.ruen.exists
       THEN /\ df' = fs.ruen.table
            /\ years' = fs.ruen.table.cols
            /\ page' = page \o <<"setup_ui">>
            /\ pc' = "ruen_loaded"
       ELSE /\ page' = page \o <<"setup_ui", "error:ruen">>
            /\ pc' = "stopped"
            /\ UNCHANGED <<df, years>>
    /\ UNCHANGED <<fs, figs, start_year_indonesia, end_year_indonesia, viz_type,
                   years_range, selected_provinces, ruptl_frame>>

(* --------------------------- RUEN: national ---------------------------- *)

default_start_year == Label(2,0,1,5)
default_end_year   == Label(2,0,2,5)

\* Line 50: the window is refused when start >= end as Python strings.
window_rejected(s, e) == ~StrLess(s, e)

\* Mutant of select_indonesia_pc: the warning is shown but the run goes on.
select_indonesia_pc_nostop(rejected) == "nat_selected"

\* Lines 50-56: st.stop() after the warning, otherwise return to main.
select_indonesia_pc(rejected) == IF rejected THEN "stopped" ELSE "nat_selected"

\* select_indonesia_options(years): years.index(default) raises ValueError
\* when a default label is no column; the two selectboxes offer every label.
select_indonesia_options ==
    /\ pc = "ruen_loaded"
    /\ IF ~Contains(years, default_start_year) \/ ~Contains(years, default_end_year)
       THEN /\ page' = page \o <<"sidebar:national", "exception:ValueError">>
            /\ pc' = "crashed"
            /\ UNCHANGED <<start_year_indonesia, end_year_indonesia, viz_type>>
       ELSE \E i \in 1..Len(years), j \in 1..Len(years), v \in {"Scatterplot", "Bar Chart"} :
            /\ start_year_indonesia' = years[i]
            /\ end_year_indonesia' = years[j]
            /\ pc' = select_indonesia_pc(window_rejected(years[i], years[j]))
            /\ IF window_rejected(years[i], years[j])
               THEN /\ page' = page \o <<"sidebar:national", "sidebar.warning">>
                    /\ UNCHANGED viz_type
               ELSE /\ page' = page \o <<"sidebar:national">>
                    /\ viz_type' = v
    /\ UNCHANGED <<fs, figs, df, years, years_range, selected_provinces, ruptl_frame>>

Trace(name, x, y) == [name |-> name, x |-> x, y |-> y]
Figure(type, traces) == [type |-> type, traces |-> traces]

\* Lines 75-76 and 82: the independent series cut to the window.
yearly_total_filtered(t, s, e) == loc_slice(t.cols, yearly_total(t), s, e)

\* Mutant of cumulative_total_filtered: the running sum restarts at the window.
cumulative_total_rebased(t, s, e) == cumsum(loc_slice(t.cols, yearly_total(t), s, e))

\* Lines 79 and 83: running sum over all year columns, then cut to the window.
cumulative_total_filtered(t, s, e) == loc_slice(t.cols, cumsum(yearly_total(t)), s, e)

\* plot_indonesia(df, start_year, end_year, viz_type): two charts, and the
\* summed raw data when the sidebar button is pressed.
plot_indonesia ==
    /\ pc = "nat_selected"
    /\ \E pressed \in BOOLEAN :
        LET x    == loc_slice(df.cols, df.cols, start_year_indonesia, end_year_indonesia)
            kind == IF viz_type = "Scatterplot" THEN "scatter" ELSE "bar"
            fig_independent ==
                Figure(kind, <<Trace("Target", x,
                    yearly_total_filtered(df, start_year_indonesia, end_year_indonesia))>>)
            fig_cumulative ==
                Figure(kind, <<Trace("Cumulative Target", x,
                    cumulative_total_filtered(df, start_year_indonesia, end_year_indonesia))>>)
            raw == Figure("table", <<Trace("summed_data", x,
                    loc_slice(df.cols, yearly_total(df),
                              start_year_indonesia, end_year_indonesia))>>)
        IN  /\ figs' = <<fig_independent, fig_cumulative>> \o (IF pressed THEN <<raw>> ELSE <<>>)
            /\ page' = page \o <<"chart:national_independent", "chart:national_cumulative">>
                            \o (IF pressed THEN <<"write:national_raw">> ELSE <<>>)
    /\ pc' = "nat_plotted"
    /\ UNCHANGED <<fs, ruen_frame, ruptl_frame>>

(* -------------------------- RUEN: provincial --------------------------- *)

\* Values the slider of line 63 can return: integers between int(years[0])
\* and int(years[-1]); the probed ones are the column years and ProbeYears.
SliderValues ==
    {n \in {IntOf(years[i]) : i \in 1..Len(years)} \cup ProbeYears :
        IntOf(years[1]) <= n /\ n <= IntOf(years[Len(years)])}

\* select_province_options(years, df): a range lo <= hi and a subset of the
\* province names.
select_province_options ==
    /\ pc = "nat_plotted"
    /\ \E lo \in SliderValues, hi \in SliderValues,
          S \in SUBSET {df.names[r] : r \in 1..Len(df.names)} :
        /\ lo <= hi
        /\ years_range' = <<lo, hi>>
        /\ selected_provinces' = S
    /\ page' = page \o <<"sidebar:provincial">>
    /\ pc' = "prov_selected"
    /\ UNCHANGED <<fs, figs, df, years, start_year_indonesia, end_year_indonesia,
                   viz_type, ruptl_frame>>

\* Line 109: df[df['Province'].isin(selected_provinces)], rows kept in order.
RECURSIVE FilterRows(_, _, _)
FilterRows(names, vals, S) ==
    IF names = <<>> THEN [names |-> <<>>, vals |-> <<>>]
    ELSE LET rest == FilterRows(Tail(names), Tail(vals), S)
         IN  IF Head(names) \in S
             THEN [names |-> <<Head(names)>> \o rest.names,
                   vals  |-> <<Head(vals)>> \o rest.vals]
             ELSE rest

\* Mutant of independent_column: the start of the range selects the column.
independent_column_lo(range) == StrOf(range[1])

\* Line 111: y = str(years_range[1]).
independent_column(range) == StrOf(range[2])

\* Line 114: y = df_filtered.columns[-1].
cumulative_column(t) == t.cols[Len(t.cols)]

ColumnOf(t, rows, label) == [r \in 1..Len(rows) |-> rows[r][IndexOf(t.cols, label)]]

\* plot_province(df, years_range, selected_provinces): px.bar raises
\* ValueError when str(years_range[1]) is no column of the table.
plot_province ==
    /\ pc = "prov_selected"
    /\ LET f == FilterRows(df.names, df.vals, selected_provinces)
           y == independent_column(years_range)
       IN  IF ~Contains(df.cols, y)
           THEN /\ page' = page \o <<"subheader:province", "exception:ValueError">>
                /\ pc' = "crashed"
                /\ UNCHANGED figs
           ELSE \E pressed \in BOOLEAN :
                /\ figs' = <<Figure("bar", <<Trace("independent", f.names, ColumnOf(df, f.vals, y))>>),
                             Figure("bar", <<Trace("cumulative", f.names,
                                                   ColumnOf(df, f.vals, cumulative_column(df)))>>)>>
                            \o (IF pressed THEN <<Figure("table", <<Trace("df_filtered", f.names, f.vals)>>)>>
                                ELSE <<>>)
                /\ page' = page \o <<"subheader:province", "chart:province_independent",
                                     "chart:province_cumulative">>
                                \o (IF pressed THEN <<"write:province_raw">> ELSE <<>>)
                /\ pc' = "prov_plotted"
    /\ UNCHANGED <<fs, ruen_frame, ruptl_frame>>

(* ------------------------------- RUPTL --------------------------------- *)

\* The second main() up to load_data(RUPTL_PATH).  The first main() has
\* returned, so its locals and the figures of its plots are gone.
load_data_ruptl ==
    /\ pc = "prov_plotted"
    /\ df' = EmptyTable
    /\ years' = <<>>
    /\ start_year_indonesia' = NoLabel
    /\ end_year_indonesia' = NoLabel
    /\ viz_type' = ""
    /\ years_range' = <<0, 0>>
    /\ selected_provinces' = {}
    /\ figs' = <<>>
    /\ IF fs.ruptl.exists
       THEN /\ df_ruptl' = fs.ruptl.table
            /\ page' = page \o <<"subheader:ruptl">>
            /\ pc' = "ruptl_loaded"
       ELSE /\ page' = page \o <<"subheader:ruptl", "error:ruptl">>
            /\ pc' = "stopped"
            /\ UNCHANGED df_ruptl
    /\ UNCHANGED <<fs, start_year_ind, end_year_ind, viz_type_ind,
                   start_year_cum, end_year_cum, viz_type_cum>>

VizRuptl == {"Line Graph", "Bar Graph", "Raw Data"}

\* select_options(df_ruptl, "RUPTL: Independent Target Options"): any two
\* year columns and a visualization type; nothing is validated.
select_options_ind ==
    /\ pc = "ruptl_loaded"
    /\ \E i \in 1..Len(df_ruptl.cols), j \in 1..Len(df_ruptl.cols), v \in VizRuptl :
        /\ start_year_ind' = df_ruptl.cols[i]
        /\ end_year_ind' = df_ruptl.cols[j]
        /\ viz_type_ind' = v
    /\ page' = page \o <<"sidebar:ruptl_independent">>
    /\ pc' = "ind_selected"
    /\ UNCHANGED <<fs, figs, ruen_frame, df_ruptl, start_year_cum, end_year_cum, viz_type_cum>>

\* select_options(df_ruptl, "RUPTL: Cumulative Target Options").
select_options_cum ==
    /\ pc = "ind_plotted"
    /\ \E i \in 1..Len(df_ruptl.cols), j \in 1..Len(df_ruptl.cols), v \in VizRuptl :
        /\ start_year_cum' = df_ruptl.cols[i]
        /\ end_year_cum' = df_ruptl.cols[j]
        /\ viz_type_cum' = v
    /\ page' = page \o <<"sidebar:ruptl_cumulative">>
    /\ pc' = "cum_selected"
    /\ UNCHANGED <<fs, figs, ruen_frame, df_ruptl, start_year_ind, end_year_ind, viz_type_ind>>

\* Mutant of row_cumsum: the running sum goes down the rows (axis=0).
RECURSIVE row_cumsum_axis0(_)
row_cumsum_axis0(rows) ==
    IF rows = <<>> THEN <<>>
    ELSE LET p == row_cumsum_axis0(SubSeq(rows, 1, Len(rows) - 1))
             last == rows[Len(rows)]
         IN  Append(p, IF p = <<>> THEN last
                       ELSE [j \in 1..Len(last) |-> p[Len(p)][j] + last[j]])

\* Line 165: df_subset.cumsum(axis=1), each row summed along its own columns.
row_cumsum(rows) == [r \in 1..Len(rows) |-> cumsum(rows[r])]

\* Lines 162-165: the columns start_year..end_year of every row, summed along
\* the row in cumulative mode.
df_subset(t, s, e, is_cumulative) ==
    LET sliced == [r \in 1..Len(t.vals) |-> loc_slice(t.cols, t.vals[r], s, e)]
    IN  IF is_cumulative THEN row_cumsum(sliced) ELSE sliced

\* Lines 167-186: one trace per row of df_subset, scatter traces unless
\* 'Bar Graph' is chosen; the chart is always drawn, and 'Raw Data' writes
\* df_subset after it.
ruptl_elements(t, s, e, viz, is_cumulative) ==
    LET x      == loc_slice(t.cols, t.cols, s, e)
        sub    == df_subset(t, s, e, is_cumulative)
        traces == [r \in 1..Len(sub) |-> Trace(t.names[r], x, sub[r])]
    IN  <<Figure(IF viz = "Bar Graph" THEN "bar" ELSE "scatter", traces)>>
        \o (IF viz = "Raw Data" THEN <<Figure("table", traces)>> ELSE <<>>)

\* What a list of rendered elements adds to the page.
RECURSIVE PageOf(_, _)
PageOf(elements, tag) ==
    IF elements = <<>> THEN <<>>
    ELSE <<(IF Head(elements).type = "table" THEN "write:" ELSE "chart:") \o tag>>
         \o PageOf(Tail(elements), tag)

\* plot_ruptl(df_ruptl, start_year_ind, end_year_ind, viz_type_ind, title).
plot_ruptl_ind ==
    /\ pc = "ind_selected"
    /\ figs' = ruptl_elements(df_ruptl, start_year_ind, end_year_ind, viz_type_ind, FALSE)
    /\ page' = page \o PageOf(figs', "ruptl_independent")
    /\ pc' = "ind_plotted"
    /\ UNCHANGED <<fs, ruen_frame, ruptl_frame>>

\* plot_ruptl(df_ruptl, start_year_cum, end_year_cum, viz_type_cum, title,
\* is_cumulative=True); the script ends after it.
plot_ruptl_cum ==
    /\ pc = "cum_selected"
    /\ figs' = ruptl_elements(df_ruptl, start_year_cum, end_year_cum, viz_type_cum, TRUE)
    /\ page' = page \o PageOf(figs', "ruptl_cumulative")
    /\ pc' = "cum_plotted"
    /\ UNCHANGED <<fs, ruen_frame, ruptl_frame>>

Next ==
    \/ load_data_ruen
    \/ select_indonesia_options
    \/ plot_indonesia
    \/ select_province_options
    \/ plot_province
    \/ load_data_ruptl
    \/ select_options_ind
    \/ plot_ruptl_ind
    \/ select_options_cum
    \/ plot_ruptl_cum

Spec == Init /\ [][Next]_vars

(* ----------------------- notions used by the claims -------------------- *)

Halted == {"stopped", "crashed"}

OnPage(tag) == \E i \in 1..Len(page) : page[i] = tag

\* Position of a label among the year columns.
Pos(cols, label) == CHOOSE i \in 1..Len(cols) : cols[i] = label

\* The labels at positions m..n.
Window(cols, m, n) == [i \in 1..(n - m + 1) |-> cols[m + i - 1]]

\* Sum of row[m..n].
RECURSIVE RangeSum(_, _, _)
RangeSum(row, m, n) == IF m > n THEN 0 ELSE row[m] + RangeSum(row, m + 1, n)

\* Sum over all rows of the cells of columns 1..j.
RECURSIVE TotalThrough(_, _)
TotalThrough(vals, j) ==
    IF vals = <<>> THEN 0 ELSE RangeSum(vals[1], 1, j) + TotalThrough(Tail(vals), j)

NationalChartOnPage == OnPage("chart:national_independent") \/ OnPage("chart:national_cumulative")
ProvinceChartOnPage == OnPage("chart:province_independent") \/ OnPage("chart:province_cumulative")
RuptlChartOnPage    == OnPage("chart:ruptl_independent") \/ OnPage("chart:ruptl_cumulative")

(* ------------------------------- claims -------------------------------- *)

\* C1: after plot_indonesia, every displayed cumulative value at year y is the
\* sum of all regions' values over the columns from the first year column
\* through y, whatever the window start; an accepted window with s before e
\* displays the value of year e.
C1_CumulativeFromFirstYear ==
    pc = "nat_plotted" =>
        LET ind == figs[1].traces[1]
            cum == figs[2].traces[1]
            ps  == Pos(df.cols, start_year_indonesia)
            pe  == Pos(df.cols, end_year_indonesia)
        IN  /\ Len(cum.y) = Len(cum.x)
            /\ Len(ind.y) = Len(ind.x)
            /\ \A i \in 1..Len(cum.x) :
                 cum.y[i] = TotalThrough(df.vals, Pos(df.cols, cum.x[i]))
            /\ \A i \in 1..Len(ind.x) :
                 ind.y[i] = TotalThrough(df.vals, Pos(df.cols, ind.x[i]))
                            - TotalThrough(df.vals, Pos(df.cols, ind.x[i]) - 1)
            /\ ps < pe => \E i \in 1..Len(cum.x) : cum.x[i] = end_year_indonesia

C1_Witness ==
    /\ pc = "nat_plotted"
    /\ df = Table(RuenColsCanonical, RuenRowPool, 2)
    /\ start_year_indonesia = Label(2,0,1,6)
    /\ end_year_indonesia = Label(2,0,1,7)
    /\ figs[1].traces[1].y = <<25, 35>>
    /\ figs[2].traces[1].y = <<40, 75>>

\* C2 (as claimed): whenever the selected national start is not before the
\* selected end by year value, the run has stopped and no national chart is
\* on the page.
C2_HaltsWhenStartNotBeforeEnd ==
    (start_year_indonesia # NoLabel
        /\ IntOf(start_year_indonesia) >= IntOf(end_year_indonesia))
    => (pc = "stopped" /\ ~NationalChartOnPage)

\* C3 (as claimed): the national window is rejected exactly when
\* int(start) >= int(end).
C3_RejectedByIntegerOrder ==
    start_year_indonesia # NoLabel
    => (OnPage("sidebar.warning")
        <=> IntOf(start_year_indonesia) >= IntOf(end_year_indonesia))

\* C4: for a window whose start is positioned before its end (or at it, for
\* the supply plan), the displayed x labels are exactly the columns from the
\* position of s through the position of e, and every series has
\* pos(e) - pos(s) + 1 values, taken from those columns.
C4_National ==
    LET ps == Pos(df.cols, start_year_indonesia)
        pe == Pos(df.cols, end_year_indonesia)
    IN  ps < pe =>
            \A k \in 1..Len(figs) :
                /\ figs[k].traces[1].x = Window(df.cols, ps, pe)
                /\ Len(figs[k].traces[1].y) = pe - ps + 1
                /\ k # 2 => \A i \in 1..(pe - ps + 1) :
                        figs[k].traces[1].y[i] = TotalThrough(df.vals, ps + i - 1)
                                                 - TotalThrough(df.vals, ps + i - 2)

C4_Ruptl(s, e, cumulative) ==
    LET ps == Pos(df_ruptl.cols, s)
        pe == Pos(df_ruptl.cols, e)
    IN  ps <= pe =>
            \A k \in 1..Len(figs) : \A r \in 1..Len(figs[k].traces) :
                /\ figs[k].traces[r].x = Window(df_ruptl.cols, ps, pe)
                /\ Len(figs[k].traces[r].y) = pe - ps + 1
                /\ ~cumulative => \A i \in 1..(pe - ps + 1) :
                        figs[k].traces[r].y[i] = df_ruptl.vals[r][ps + i - 1]

C4_ClosedIntervalSlice ==
    /\ pc = "nat_plotted" => C4_National
    /\ pc = "ind_plotted" => C4_Ruptl(start_year_ind, end_year_ind, FALSE)
    /\ pc = "cum_plotted" => C4_Ruptl(start_year_cum, end_year_cum, TRUE)

C4_Witness ==
    /\ pc = "ind_plotted"
    /\ start_year_ind = Label(2,0,2,2)
    /\ end_year_ind = Label(2,0,2,3)
    /\ Len(df_ruptl.vals) = 2
    /\ figs[1].traces[2].x = <<Label(2,0,2,2), Label(2,0,2,3)>>
    /\ figs[1].traces[2].y = <<1, 1>>

\* C5: in cumulative mode the value of a row at the i-th displayed year is
\* the sum of that row's own cells from the window start through that year;
\* in independent mode it is the row's cell of that year; one series per row,
\* named after the row.
C5_Rows(s, cumulative) ==
    LET ps == Pos(df_ruptl.cols, s)
    IN  \A k \in 1..Len(figs) :
            /\ Len(figs[k].traces) = Len(df_ruptl.vals)
            /\ \A r \in 1..Len(figs[k].traces) :
                /\ figs[k].traces[r].name = df_ruptl.names[r]
                /\ \A i \in 1..Len(figs[k].traces[r].y) :
                     figs[k].traces[r].y[i] =
                        IF cumulative THEN RangeSum(df_ruptl.vals[r], ps, ps + i - 1)
                        ELSE df_ruptl.vals[r][ps + i - 1]

C5_RowWisePrefixSum ==
    /\ pc = "ind_plotted" => C5_Rows(start_year_ind, FALSE)
    /\ pc = "cum_plotted" => C5_Rows(start_year_cum, TRUE)

C5_Witness ==
    /\ pc = "cum_plotted"
    /\ start_year_cum = Label(2,0,2,1)
    /\ end_year_cum = Label(2,0,2,3)
    /\ Len(df_ruptl.vals) = 2
    /\ figs[1].traces[1].y = <<2, 5, 9>>
    /\ figs[1].traces[2].y = <<1, 2, 3>>

\* C6 (as claimed): when the run is over, the RUEN file was missing and the
\* RUPTL file present, the error is on the page and so are the RUPTL charts.
C6_MissingRuenKeepsRuptl ==
    (pc \in Halted \cup {"cum_plotted"} /\ ~fs.ruen.exists /\ fs.ruptl.exists)
    => (OnPage("error:ruen") /\ ~NationalChartOnPage
        /\ OnPage("chart:ruptl_independent") /\ OnPage("chart:ruptl_cumulative"))

\* C7 (as claimed): with 'Raw Data' selected plot_ruptl renders the table
\* only, no chart.
C7_RawDataNoChart ==
    /\ (pc = "ind_plotted" /\ viz_type_ind = "Raw Data")
            => \A k \in 1..Len(figs) : figs[k].type = "table"
    /\ (pc = "cum_plotted" /\ viz_type_cum = "Raw Data")
            => \A k \in 1..Len(figs) : figs[k].type = "table"

\* C8: after plot_province the bars are those of exactly the selected
\* regions, in table order; a region's independent bar is its cell in the
\* column of the end year, its cumulative bar its cell in the last column.
C8_ProvinceBars ==
    pc = "prov_plotted" =>
        LET ind == figs[1].traces[1]
            cum == figs[2].traces[1]
            row(name) == CHOOSE r \in 1..Len(df.names) : df.names[r] = name
            col == CHOOSE c \in 1..Len(df.cols) : IntOf(df.cols[c]) = years_range[2]
        IN  /\ ind.x = cum.x
            /\ {ind.x[i] : i \in 1..Len(ind.x)}
                 = selected_provinces \cap {df.names[r] : r \in 1..Len(df.names)}
            /\ \A i, j \in 1..Len(ind.x) : i < j => row(ind.x[i]) < row(ind.x[j])
            /\ Len(ind.y) = Len(ind.x) /\ Len(cum.y) = Len(cum.x)
            /\ \A i \in 1..Len(ind.x) :
                /\ ind.y[i] = df.vals[row(ind.x[i])][col]
                /\ cum.y[i] = df.vals[row(cum.x[i])][Len(df.cols)]

C8_Witness ==
    /\ pc = "prov_plotted"
    /\ df = Table(RuenColsCanonical, RuenRowPool, 2)
    /\ years_range = <<2015, 2017>>
    /\ selected_provinces = {"A"}
    /\ figs[1].traces[1].y = <<30>>
    /\ figs[2].traces[1].y = <<40>>

\* C9: the steps run in the script's order, a halted run takes no further
\* step, and once the national window was rejected no provincial and no
\* RUPTL chart is on the page.
Rank(p) ==
    CASE p = "start" -> 0
      [] p = "ruen_loaded" -> 1
      [] p = "nat_selected" -> 2
      [] p = "nat_plotted" -> 3
      [] p = "prov_selected" -> 4
      [] p = "prov_plotted" -> 5
      [] p = "ruptl_loaded" -> 6
      [] p = "ind_selected" -> 7
      [] p = "ind_plotted" -> 8
      [] p = "cum_selected" -> 9
      [] p = "cum_plotted" -> 10
      [] OTHER -> 11

C9_Step ==
    /\ pc \notin Halted
    /\ pc' \in Halted \/ Rank(pc') = Rank(pc) + 1

C9_SectionOrder ==
    /\ [][C9_Step]_vars
    /\ [](OnPage("sidebar.warning")
            => (pc = "stopped" /\ ~NationalChartOnPage
                /\ ~ProvinceChartOnPage /\ ~RuptlChartOnPage))

C9_Witness ==
    /\ pc = "stopped"
    /\ OnPage("sidebar.warning")
    /\ fs.ruptl.exists
    /\ Len(df.names) = 2

\* C10: the supply-plan steps never halt and never warn; the chart has one
\* trace per row, with no point when the start column is positioned after
\* the end column and exactly one point when they are the same column.
C10_Points(s, e) ==
    LET ps == Pos(df_ruptl.cols, s)
        pe == Pos(df_ruptl.cols, e)
    IN  /\ Len(figs) >= 1
        /\ figs[1].type \in {"scatter", "bar"}
        /\ Len(figs[1].traces) = Len(df_ruptl.vals)
        /\ \A r \in 1..Len(figs[1].traces) :
            /\ ps > pe => Len(figs[1].traces[r].x) = 0 /\ Len(figs[1].traces[r].y) = 0
            /\ ps = pe => Len(figs[1].traces[r].x) = 1 /\ Len(figs[1].traces[r].y) = 1

C10_Step ==
    pc \in {"ruptl_loaded", "ind_selected", "ind_plotted", "cum_selected"}
    => /\ pc' \notin Halted
       /\ Rank(pc') = Rank(pc) + 1
       /\ \A i \in (Len(page) + 1)..Len(page') :
              page'[i] \notin {"sidebar.warning", "error:ruptl", "exception:ValueError"}

C10_NoWindowValidation ==
    /\ [][C10_Step]_vars
    /\ [](/\ pc = "ind_plotted" => C10_Points(start_year_ind, end_year_ind)
          /\ pc = "cum_plotted" => C10_Points(start_year_cum, end_year_cum))

C10_Witness ==
    /\ pc = "cum_plotted"
    /\ start_year_cum = Label(2,0,2,3)
    /\ end_year_cum = Label(2,0,2,1)
    /\ start_year_ind = end_year_ind
    /\ Len(figs[1].traces) = 2
    /\ figs[1].traces[1].y = <<>>
====
